---- MODULE Spec2Model ----
(***************************************************************************)
(* Recipe REST API (Express handlers over a hosted relational store).      *)
(* The model follows the newest recipe controller: every `await` on the    *)
(* store is one atomic step of a request; the synchronous code between two *)
(* awaits runs inside the step that resumes it.                            *)
(***************************************************************************)
EXTENDS Integers, Sequences, FiniteSets, TLC

\* ------------------------------------------------------------------ bounds
MaxReqs == 2        \* requests handled in one behaviour (they may interleave)
MaxId == 2          \* recipe ids the store can hand out
MaxRows == 25       \* recipe rows the store holds when a list request arrives

Reqs == 1..MaxReqs
Ids == 1..MaxId

\* ------------------------------------------------------------- JS values
\* A JSON value of a request body: undefined, null, a number, a boolean, a
\* string (a sequence of characters), or NaN (a result of parseInt).
Undef == [t |-> "undef", n |-> 0, s |-> <<>>]
Null == [t |-> "null", n |-> 0, s |-> <<>>]
NaN == [t |-> "nan", n |-> 0, s |-> <<>>]
Num(k) == [t |-> "num", n |-> k, s |-> <<>>]
Bool(b) == [t |-> "bool", n |-> IF b THEN 1 ELSE 0, s |-> <<>>]
Str(q) == [t |-> "str", n |-> 0, s |-> q]

Digits == <<"0", "1", "2", "3", "4", "5", "6", "7", "8", "9">>
IsDigit(c) == \E i \in 1..10 : Digits[i] = c
DigitVal(c) == (CHOOSE i \in 1..10 : Digits[i] = c) - 1

\* JS truthiness: undefined, null, NaN, 0, false and "" are falsy.
Truthy(v) ==
  CASE v.t = "num" -> v.n # 0
    [] v.t = "bool" -> v.n = 1
    [] v.t = "str" -> v.s # <<>>
    [] OTHER -> FALSE

RECURSIVE TrimLeft(_)
TrimLeft(q) == IF q # <<>> /\ Head(q) = " " THEN TrimLeft(Tail(q)) ELSE q

RECURSIVE TrimRight(_)
TrimRight(q) ==
  IF q # <<>> /\ q[Len(q)] = " " THEN TrimRight(SubSeq(q, 1, Len(q) - 1)) ELSE q

\* String.prototype.trim
Trim(q) == TrimRight(TrimLeft(q))

RECURSIVE DigitsValue(_, _)
DigitsValue(q, acc) ==
  IF q # <<>> /\ IsDigit(Head(q))
    THEN DigitsValue(Tail(q), 10 * acc + DigitVal(Head(q)))
    ELSE acc

AllDigits(q) == \A i \in 1..Len(q) : IsDigit(q[i])

\* ToNumber, as the relational operators apply it to a non-number operand.
ToNumber(v) ==
  CASE v.t = "num" -> v
    [] v.t = "bool" -> Num(v.n)
    [] v.t = "null" -> Num(0)
    [] v.t = "str" ->
         IF AllDigits(Trim(v.s)) THEN Num(DigitsValue(Trim(v.s), 0)) ELSE NaN
    [] OTHER -> NaN

\* v < k and v > k for a number k: false whenever v converts to NaN.
LessThan(v, k) == ToNumber(v).t = "num" /\ ToNumber(v).n < k
GreaterThan(v, k) == ToNumber(v).t = "num" /\ ToNumber(v).n > k

\* parseInt: an optional sign and the leading digits of the text behind its
\* leading blanks, NaN when there are no digits.
ParseInt(v) ==
  CASE v.t = "num" -> v
    [] v.t = "str" ->
         LET q == TrimLeft(v.s)
             signed == q # <<>> /\ Head(q) \in {"-", "+"}
             d == IF signed THEN Tail(q) ELSE q
         IN  IF d # <<>> /\ IsDigit(Head(d))
               THEN Num(IF signed /\ Head(q) = "-" THEN 0 - DigitsValue(d, 0)
                                                    ELSE DigitsValue(d, 0))
               ELSE NaN
    [] OTHER -> NaN

\* A list-valued body field: undefined, an array of items, or some other
\* truthy value that is not an array (a string, an object).
NoList == [k |-> "undef", list |-> <<>>]
List(l) == [k |-> "array", list |-> l]
NotAList == [k |-> "other", list |-> <<>>]

\* ------------------------------------------------------------ errors, bodies
\* An error value: the store call it came from, whether the call returned it
\* ({ error }) or rejected (throw), and the store's error code.
NoErr == [src |-> "none", how |-> "none", code |-> ""]
Err(src, how, code) == [src |-> src, how |-> how, code |-> code]
\* name.trim() on a value that is no string
TypeError == Err("handler", "throw", "TypeError")

\* What a store call can do: succeed, return { error }, or reject.
StoreOutcomes == {"ok", "error", "throw"}

NoBody ==
  [name |-> Undef, description |-> Undef, prepTime |-> Undef, servings |-> Undef,
   difficulty |-> Undef, ingredients |-> NoList, steps |-> NoList,
   tags |-> NoList, images |-> NoList, isPublic |-> Undef]

\* The aggregate a joined select returns; NoData is `null`.
NoData ==
  [id |-> 0, name |-> <<>>, description |-> <<>>, prep_time |-> NaN,
   servings |-> NaN, difficulty |-> NaN, ingredients |-> <<>>, steps |-> <<>>,
   recipe_tags |-> <<>>]

\* The pagination fields of a list response (formatPagination).
NoPage ==
  [results |-> 0, totalItems |-> 0, currentPage |-> 0, totalPages |-> 0, items |-> <<>>]

\* A response: the HTTP status, the body's `status` field (kind: "missing"
\* when the body has none), its message and data, its `error` detail field
\* (detail: "absent" when the body has no such key, "undefined" when the key
\* holds undefined), and the error handed to next() (err).
NoResp ==
  [status |-> 0, kind |-> "none", message |-> "", data |-> NoData, err |-> NoErr,
   detail |-> "absent", page |-> NoPage]

\* req.query of a list request
NoQuery == [page |-> Undef, limit |-> Undef]

IdleReq ==
  [op |-> "none", pc |-> "idle", id |-> 0, body |-> NoBody, recipeId |-> 0,
   err |-> NoErr, check |-> "none", rollback |-> "none", resp |-> NoResp,
   route |-> "none", header |-> Undef, auth |-> "none", delErr |-> FALSE,
   query |-> NoQuery, start |-> 0, end |-> 0, arg |-> Null]

\* ------------------------------------------------------------------ state
VARIABLES
  recipes,      \* the rows of table recipes (a set: ids are unique)
  ingredients,  \* the rows of table ingredients, in insertion order
  steps,        \* the rows of table steps, in insertion order
  recipe_tags,  \* the rows of table recipe_tags, in insertion order
  images,       \* the rows of table images
  nextId,       \* the id the store gives the next recipe row
  req,          \* per request: handler, position, locals, response
  log,          \* console.error events, in order (`by`: the request that logged)
  nodeEnv       \* process.env.NODE_ENV of the server process

vars == <<recipes, ingredients, steps, recipe_tags, images, nextId, req, log, nodeEnv>>
store == <<recipes, ingredients, steps, recipe_tags, images, nextId>>

\* --------------------------------------------------------- response helpers
\* formatSuccess(data, message, statusCode)
formatSuccess(data, message, statusCode) ==
  [status |-> statusCode, kind |-> "success", message |-> message,
   data |-> data, err |-> NoErr, detail |-> "absent", page |-> NoPage]

\* formatError with `response.error = error` whatever the mode.
formatError_anyMode(message, statusCode, error) ==
  [status |-> statusCode, kind |-> "error", message |-> message,
   data |-> NoData, err |-> NoErr,
   detail |-> IF Truthy(error) THEN "given" ELSE "absent",
   page |-> NoPage]

\* formatError(message, statusCode, error = null): the handlers pass no error
\* detail; `if (error && process.env.NODE_ENV === "development") response.error = error`
formatError(message, statusCode, error) ==
  [status |-> statusCode, kind |-> "error", message |-> message,
   data |-> NoData, err |-> NoErr,
   detail |-> IF Truthy(error) /\ nodeEnv = "development" THEN "given" ELSE "absent",
   page |-> NoPage]

\* errorHandler(err): err.statusCode || 500; store errors carry no statusCode
InternalError == 500
errorHandler(err) ==
  [status |-> InternalError, kind |-> "error", message |-> "Internal server error",
   data |-> NoData, err |-> err,
   detail |-> IF nodeEnv = "development" THEN "stack" ELSE "undefined",
   page |-> NoPage]

\* ------------------------------------------------------------ store helpers
HasRecipe(id) == \E row \in recipes : row.id = id
RecipeRow(id) == CHOOSE row \in recipes : row.id = id
RowsOf(table, id) == SelectSeq(table, LAMBDA row : row.recipe_id = id)
RowsNotOf(table, id) == SelectSeq(table, LAMBDA row : row.recipe_id # id)

\* The orders in which the store may return a set of joined rows.
PermSeqs(q) == { [i \in 1..Len(q) |-> q[p[i]]] : p \in Permutations(1..Len(q)) }

\* The joined select of one recipe, its dependents returned in the orders given.
Aggregate(id, ing, stp, tgs) ==
  LET row == RecipeRow(id) IN
  [id |-> id, name |-> row.name, description |-> row.description,
   prep_time |-> row.prep_time, servings |-> row.servings,
   difficulty |-> row.difficulty,
   ingredients |-> [i \in 1..Len(ing) |-> ing[i].order],
   steps |-> [i \in 1..Len(stp) |-> stp[i].step_number],
   recipe_tags |-> [i \in 1..Len(tgs) |-> tgs[i].tag_id]]

\* ------------------------------------------------------------ createRecipe
\* The validation with the upper bound of difficulty left out.
createValidation_noUpperBound(body) ==
  IF ~Truthy(body.name) THEN "Name is required"
  ELSE IF body.name.t # "str" THEN "TypeError"
  ELSE IF Trim(body.name.s) = <<>> THEN "Name is required"
  ELSE IF ~Truthy(body.prepTime) \/ LessThan(body.prepTime, 1)
    THEN "Valid preparation time is required"
  ELSE IF ~Truthy(body.servings) \/ LessThan(body.servings, 1)
    THEN "Valid number of servings is required"
  ELSE IF ~Truthy(body.difficulty) \/ LessThan(body.difficulty, 1)
    THEN "Difficulty must be between 1 and 5"
  ELSE IF body.ingredients.k # "array" \/ Len(body.ingredients.list) = 0
    THEN "At least one ingredient is required"
  ELSE IF body.steps.k # "array" \/ Len(body.steps.list) = 0
    THEN "At least one step is required"
  ELSE IF body.isPublic.t \in {"undef", "null"} THEN "isPublic is required"
  ELSE "ok"

\* The validation with difficulty 5 rejected (>= 5 for > 5).
createValidation_offByOne(body) ==
  IF ~Truthy(body.name) THEN "Name is required"
  ELSE IF body.name.t # "str" THEN "TypeError"
  ELSE IF Trim(body.name.s) = <<>> THEN "Name is required"
  ELSE IF ~Truthy(body.prepTime) \/ LessThan(body.prepTime, 1)
    THEN "Valid preparation time is required"
  ELSE IF ~Truthy(body.servings) \/ LessThan(body.servings, 1)
    THEN "Valid number of servings is required"
  ELSE IF ~Truthy(body.difficulty) \/ LessThan(body.difficulty, 1)
          \/ GreaterThan(body.difficulty, 4)
    THEN "Difficulty must be between 1 and 5"
  ELSE IF body.ingredients.k # "array" \/ Len(body.ingredients.list) = 0
    THEN "At least one ingredient is required"
  ELSE IF body.steps.k # "array" \/ Len(body.steps.list) = 0
    THEN "At least one step is required"
  ELSE IF body.isPublic.t \in {"undef", "null"} THEN "isPublic is required"
  ELSE "ok"

\* The validation of createRecipe: "ok", "TypeError" (name.trim is not a
\* function), or the message of the 400 response.
createValidation(body) ==
  IF ~Truthy(body.name) THEN "Name is required"
  ELSE IF body.name.t # "str" THEN "TypeError"
  ELSE IF Trim(body.name.s) = <<>> THEN "Name is required"
  ELSE IF ~Truthy(body.prepTime) \/ LessThan(body.prepTime, 1)
    THEN "Valid preparation time is required"
  ELSE IF ~Truthy(body.servings) \/ LessThan(body.servings, 1)
    THEN "Valid number of servings is required"
  ELSE IF ~Truthy(body.difficulty) \/ LessThan(body.difficulty, 1)
          \/ GreaterThan(body.difficulty, 5)
    THEN "Difficulty must be between 1 and 5"
  ELSE IF body.ingredients.k # "array" \/ Len(body.ingredients.list) = 0
    THEN "At least one ingredient is required"
  ELSE IF body.steps.k # "array" \/ Len(body.steps.list) = 0
    THEN "At least one step is required"
  ELSE IF body.isPublic.t \in {"undef", "null"} THEN "isPublic is required"
  ELSE "ok"

\* const newRecipe = { name: name.trim(), ..., prep_time: parseInt(prepTime), ... }
newRecipe(id, body) ==
  [id |-> id, name |-> Trim(body.name.s),
   description |-> IF body.description.t = "str" THEN Trim(body.description.s) ELSE <<>>,
   prep_time |-> ParseInt(body.prepTime), servings |-> ParseInt(body.servings),
   difficulty |-> ParseInt(body.difficulty)]

\* ingredients.map((ingredient, index) => ({ recipe_id, order: ingredient.order || index + 1 }))
ingredientsToInsert(id, list) ==
  [i \in 1..Len(list) |->
     [recipe_id |-> id, order |-> IF Truthy(list[i]) THEN list[i].n ELSE i]]

\* steps.map((step, index) => ({ recipe_id, step_number: step.step_number || index + 1 }))
stepsToInsert(id, list) ==
  [i \in 1..Len(list) |->
     [recipe_id |-> id, step_number |-> IF Truthy(list[i]) THEN list[i].n ELSE i]]

\* tags.map((tag) => ({ recipe_id, tag_id: tag.id }))
tagsToInsert(id, list) ==
  [i \in 1..Len(list) |-> [recipe_id |-> id, tag_id |-> list[i]]]

\* A dependent insert the store accepts only while the parent row exists
\* (foreign key): otherwise it returns an error.
InsertOutcome(out, id) == IF out = "ok" /\ ~HasRecipe(id) THEN "error" ELSE out

\* Entry of the handler up to its first await: validation, then the recipe
\* insert is issued.
createRecipe_start(r, Bodies) ==
  /\ req[r].pc = "idle"
  /\ \E body \in Bodies :
     LET v == createValidation(body)
         q == [req[r] EXCEPT !.op = "create", !.body = body]
     IN  /\ req' = [req EXCEPT ![r] =
                      IF v = "ok" THEN [q EXCEPT !.pc = "insRecipe"]
                      ELSE IF v = "TypeError"
                        THEN [q EXCEPT !.pc = "done", !.resp = errorHandler(TypeError)]
                      ELSE [q EXCEPT !.pc = "done", !.resp = formatError(v, 400, Null)]]
         /\ log' = IF v = "TypeError"
                     THEN Append(log, [by |-> r, tag |-> "Error creating recipe:", err |-> TypeError])
                     ELSE log
  /\ UNCHANGED store
  /\ UNCHANGED nodeEnv

\* await from("recipes").insert([newRecipe]).select().single()
createRecipe_insertRecipe(r, out) ==
  /\ req[r].pc = "insRecipe"
  /\ LET eff == IF out = "ok" /\ nextId > MaxId THEN "error" ELSE out
         e == Err("recipes.insert", eff, "")
     IN  IF eff = "ok"
           THEN /\ recipes' = recipes \cup {newRecipe(nextId, req[r].body)}
                /\ nextId' = nextId + 1
                /\ req' = [req EXCEPT ![r].recipeId = nextId, ![r].pc = "insIngredients"]
                /\ log' = log
           ELSE /\ req' = [req EXCEPT ![r].pc = "done", ![r].resp = errorHandler(e)]
                /\ log' = Append(log, [by |-> r, tag |-> "Error creating recipe:", err |-> e])
                /\ UNCHANGED <<recipes, nextId>>
  /\ UNCHANGED <<ingredients, steps, recipe_tags, images>>
  /\ UNCHANGED nodeEnv

\* await from("ingredients").insert(ingredientsToInsert)
createRecipe_insertIngredients(r, out) ==
  /\ req[r].pc = "insIngredients"
  /\ LET id == req[r].recipeId
         eff == InsertOutcome(out, id)
     IN  IF eff = "ok"
           THEN /\ ingredients' =
                     ingredients \o ingredientsToInsert(id, req[r].body.ingredients.list)
                /\ req' = [req EXCEPT ![r].pc = "insSteps"]
           ELSE /\ req' = [req EXCEPT ![r].pc = "rollback",
                                      ![r].err = Err("ingredients.insert", eff, "")]
                /\ UNCHANGED ingredients
  /\ UNCHANGED <<recipes, steps, recipe_tags, images, nextId, log>>
  /\ UNCHANGED nodeEnv

\* await from("steps").insert(stepsToInsert); then `if (tags && tags.length > 0)`
createRecipe_insertSteps(r, out) ==
  /\ req[r].pc = "insSteps"
  /\ LET id == req[r].recipeId
         eff == InsertOutcome(out, id)
         tags == req[r].body.tags
     IN  IF eff = "ok"
           THEN /\ steps' = steps \o stepsToInsert(id, req[r].body.steps.list)
                /\ req' = [req EXCEPT ![r].pc =
                             IF tags.k = "array" /\ Len(tags.list) > 0
                               THEN "insTags" ELSE "fetch"]
           ELSE /\ req' = [req EXCEPT ![r].pc = "rollback",
                                      ![r].err = Err("steps.insert", eff, "")]
                /\ UNCHANGED steps
  /\ UNCHANGED <<recipes, ingredients, recipe_tags, images, nextId, log>>
  /\ UNCHANGED nodeEnv

\* The recipe_tags insert with `if (tagsError) throw tagsError` left out.
createRecipe_insertTags_unchecked(r, out) ==
  /\ req[r].pc = "insTags"
  /\ LET id == req[r].recipeId
         eff == InsertOutcome(out, id)
     IN  IF eff = "throw"
           THEN /\ req' = [req EXCEPT ![r].pc = "rollback",
                                      ![r].err = Err("recipe_tags.insert", eff, "")]
                /\ UNCHANGED recipe_tags
           ELSE /\ recipe_tags' =
                     IF eff = "ok"
                       THEN recipe_tags \o tagsToInsert(id, req[r].body.tags.list)
                       ELSE recipe_tags
                /\ req' = [req EXCEPT ![r].pc = "fetch"]
  /\ UNCHANGED <<recipes, ingredients, steps, images, nextId, log>>
  /\ UNCHANGED nodeEnv

\* await from("recipe_tags").insert(tagsToInsert)
createRecipe_insertTags(r, out) ==
  /\ req[r].pc = "insTags"
  /\ LET id == req[r].recipeId
         eff == InsertOutcome(out, id)
     IN  IF eff = "ok"
           THEN /\ recipe_tags' = recipe_tags \o tagsToInsert(id, req[r].body.tags.list)
                /\ req' = [req EXCEPT ![r].pc = "fetch"]
           ELSE /\ req' = [req EXCEPT ![r].pc = "rollback",
                                      ![r].err = Err("recipe_tags.insert", eff, "")]
                /\ UNCHANGED recipe_tags
  /\ UNCHANGED <<recipes, ingredients, steps, images, nextId, log>>
  /\ UNCHANGED nodeEnv

\* What select(...).eq("id", id).single() answers: a missing row is the
\* PGRST116 error, an existing one is returned.
SingleOutcomes(id) == IF HasRecipe(id) THEN StoreOutcomes ELSE {"PGRST116", "empty", "error", "throw"}
SingleErr(src, out) ==
  IF out = "PGRST116" THEN Err(src, "error", "PGRST116") ELSE Err(src, out, "")

\* await from("recipes").select(`*, ingredients(...), steps(...), recipe_tags(...)`)
\*   .eq("id", recipeId).single(); the data is returned as the store sent it.
createRecipe_fetch(r) ==
  /\ req[r].pc = "fetch"
  /\ LET id == req[r].recipeId IN
     \E out \in SingleOutcomes(id),
        ing \in PermSeqs(RowsOf(ingredients, id)),
        stp \in PermSeqs(RowsOf(steps, id)),
        tgs \in PermSeqs(RowsOf(recipe_tags, id)) :
     req' = [req EXCEPT ![r] =
          IF out = "ok"
            THEN [@ EXCEPT !.pc = "done",
                    !.resp = formatSuccess(Aggregate(id, ing, stp, tgs),
                                           "Recipe created successfully", 201)]
          ELSE IF out = "empty"
            THEN [@ EXCEPT !.pc = "done",
                    !.resp = formatSuccess(NoData, "Recipe created successfully", 201)]
          ELSE [@ EXCEPT !.pc = "rollback", !.err = SingleErr("recipes.select", out)]]
  /\ UNCHANGED <<store, log>>
  /\ UNCHANGED nodeEnv

\* delete().eq("id", id) on recipes: the store cascades to the dependents.
CascadeDelete(id) ==
  /\ recipes' = {row \in recipes : row.id # id}
  /\ ingredients' = RowsNotOf(ingredients, id)
  /\ steps' = RowsNotOf(steps, id)
  /\ recipe_tags' = RowsNotOf(recipe_tags, id)
  /\ images' = RowsNotOf(images, id)
  /\ UNCHANGED nextId

\* The inner catch without its compensating delete.
createRecipe_rollback_noDelete(r, out) ==
  /\ req[r].pc = "rollback"
  /\ LET e == IF out = "throw" THEN Err("recipes.delete", "throw", "") ELSE req[r].err
     IN  /\ req' = [req EXCEPT ![r].pc = "done", ![r].rollback = out,
                                ![r].resp = errorHandler(e)]
         /\ log' = Append(log, [by |-> r, tag |-> "Error creating recipe:", err |-> e])
  /\ UNCHANGED store
  /\ UNCHANGED nodeEnv

\* catch (error) { await from("recipes").delete().eq("id", recipeId); throw error; }
\* then the outer catch: console.error("Error creating recipe:", error); next(error).
\* The delete's result is not looked at; a delete that rejects replaces the error.
createRecipe_rollback(r, out) ==
  /\ req[r].pc = "rollback"
  /\ LET e == IF out = "throw" THEN Err("recipes.delete", "throw", "") ELSE req[r].err
     IN  /\ req' = [req EXCEPT ![r].pc = "done", ![r].rollback = out,
                                ![r].resp = errorHandler(e)]
         /\ log' = Append(log, [by |-> r, tag |-> "Error creating recipe:", err |-> e])
  /\ IF out = "ok" THEN CascadeDelete(req[r].recipeId) ELSE UNCHANGED store
  /\ UNCHANGED nodeEnv

\* ------------------------------------------------------------ updateRecipe
\* `if (name) updatedData.name = name.trim()` and
\* `if (description !== undefined) updatedData.description = description.trim()`
\* reject with a TypeError on a value that has no trim.
updateThrows(body) ==
  \/ Truthy(body.name) /\ body.name.t # "str"
  \/ body.description.t \notin {"undef", "str"}

\* Object.keys(updatedData).length > 0
hasUpdatedData(body) ==
  \/ Truthy(body.name)
  \/ body.description.t # "undef"
  \/ Truthy(body.prepTime)
  \/ Truthy(body.servings)
  \/ Truthy(body.difficulty)
  \/ body.isPublic.t # "undef"

\* The updated row with description written only when it is truthy.
updatedRow_descriptionIfTruthy(row, body) ==
  [id |-> row.id,
   name |-> IF Truthy(body.name) THEN Trim(body.name.s) ELSE row.name,
   description |->
     IF Truthy(body.description) THEN Trim(body.description.s) ELSE row.description,
   prep_time |-> IF Truthy(body.prepTime) THEN ParseInt(body.prepTime) ELSE row.prep_time,
   servings |-> IF Truthy(body.servings) THEN ParseInt(body.servings) ELSE row.servings,
   difficulty |->
     IF Truthy(body.difficulty) THEN ParseInt(body.difficulty) ELSE row.difficulty]

\* The row after update(updatedData): only the fields put in updatedData change
\* (the columns calories, main_image_url and is_public are not kept in the rows).
updatedRow(row, body) ==
  [id |-> row.id,
   name |-> IF Truthy(body.name) THEN Trim(body.name.s) ELSE row.name,
   description |->
     IF body.description.t # "undef" THEN Trim(body.description.s) ELSE row.description,
   prep_time |-> IF Truthy(body.prepTime) THEN ParseInt(body.prepTime) ELSE row.prep_time,
   servings |-> IF Truthy(body.servings) THEN ParseInt(body.servings) ELSE row.servings,
   difficulty |->
     IF Truthy(body.difficulty) THEN ParseInt(body.difficulty) ELSE row.difficulty]

\* The next await of updateRecipe after section `done` of (1 ingredients,
\* 2 steps, 3 tags): `if (x && Array.isArray(x))` guards each section.
updateNext(body, done) ==
  IF done < 1 /\ body.ingredients.k = "array" THEN "u_delIngredients"
  ELSE IF done < 2 /\ body.steps.k = "array" THEN "u_delSteps"
  ELSE IF done < 3 /\ body.tags.k = "array" THEN "u_delTags"
  ELSE "u_fetch"

\* catch (error) { console.error("Error updating recipe:", error); next(error); }
updateFailed(r, e) ==
  /\ req' = [req EXCEPT ![r].pc = "done", ![r].err = e, ![r].resp = errorHandler(e)]
  /\ log' = Append(log, [by |-> r, tag |-> "Error updating recipe:", err |-> e])

\* Entry: the existence check is issued (`id` comes from the route).
updateRecipe_start(r, Bodies) ==
  /\ req[r].pc = "idle"
  /\ \E id \in Ids, body \in Bodies :
     req' = [req EXCEPT ![r] = [@ EXCEPT !.op = "update", !.id = id, !.body = body,
                                         !.pc = "u_check"]]
  /\ UNCHANGED <<store, log>>
  /\ UNCHANGED nodeEnv

\* await from("recipes").select().eq("id", id).single(), then updatedData is built
updateRecipe_check(r) ==
  /\ req[r].pc = "u_check"
  /\ \E out \in SingleOutcomes(req[r].id) :
     LET body == req[r].body
         e == IF out # "ok" THEN SingleErr("recipes.select", out) ELSE TypeError
     IN
     IF out \in {"PGRST116", "empty"}
       THEN /\ req' = [req EXCEPT ![r].pc = "done", ![r].check = out,
                                  ![r].resp = formatError("Recipe not found", 404, Null)]
            /\ log' = log
     ELSE IF out # "ok" \/ updateThrows(body)
       THEN /\ req' = [req EXCEPT ![r].pc = "done", ![r].check = out, ![r].err = e,
                                  ![r].resp = errorHandler(e)]
            /\ log' = Append(log, [by |-> r, tag |-> "Error updating recipe:", err |-> e])
     ELSE /\ req' = [req EXCEPT ![r].check = out, ![r].pc =
                       IF hasUpdatedData(body) THEN "u_update" ELSE updateNext(body, 0)]
          /\ log' = log
  /\ UNCHANGED store
  /\ UNCHANGED nodeEnv

\* await from("recipes").update(updatedData).eq("id", id)
updateRecipe_update(r, out) ==
  /\ req[r].pc = "u_update"
  /\ IF out = "ok"
       THEN /\ recipes' = {IF row.id = req[r].id THEN updatedRow(row, req[r].body) ELSE row :
                             row \in recipes}
            /\ req' = [req EXCEPT ![r].pc = updateNext(req[r].body, 0)]
            /\ log' = log
       ELSE /\ updateFailed(r, Err("recipes.update", out, ""))
            /\ UNCHANGED recipes
  /\ UNCHANGED <<ingredients, steps, recipe_tags, images, nextId>>
  /\ UNCHANGED nodeEnv

\* await from("ingredients").delete().eq("recipe_id", id): the result is not
\* looked at, so only a rejection reaches the catch.
updateRecipe_deleteIngredients(r, out) ==
  /\ req[r].pc = "u_delIngredients"
  /\ IF out = "throw"
       THEN updateFailed(r, Err("ingredients.delete", out, ""))
       ELSE /\ req' = [req EXCEPT ![r].delErr = @ \/ out = "error", ![r].pc =
                         IF Len(req[r].body.ingredients.list) > 0
                           THEN "u_insIngredients" ELSE updateNext(req[r].body, 1)]
            /\ log' = log
  /\ ingredients' = IF out = "ok" THEN RowsNotOf(ingredients, req[r].id) ELSE ingredients
  /\ UNCHANGED <<recipes, steps, recipe_tags, images, nextId>>
  /\ UNCHANGED nodeEnv

\* await from("ingredients").insert(ingredientsToInsert)
updateRecipe_insertIngredients(r, out) ==
  /\ req[r].pc = "u_insIngredients"
  /\ LET eff == InsertOutcome(out, req[r].id) IN
     IF eff = "ok"
       THEN /\ ingredients' =
                 ingredients \o ingredientsToInsert(req[r].id, req[r].body.ingredients.list)
            /\ req' = [req EXCEPT ![r].pc = updateNext(req[r].body, 1)]
            /\ log' = log
       ELSE /\ updateFailed(r, Err("ingredients.insert", eff, ""))
            /\ UNCHANGED ingredients
  /\ UNCHANGED <<recipes, steps, recipe_tags, images, nextId>>
  /\ UNCHANGED nodeEnv

\* await from("steps").delete().eq("recipe_id", id)
updateRecipe_deleteSteps(r, out) ==
  /\ req[r].pc = "u_delSteps"
  /\ IF out = "throw"
       THEN updateFailed(r, Err("steps.delete", out, ""))
       ELSE /\ req' = [req EXCEPT ![r].delErr = @ \/ out = "error", ![r].pc =
                         IF Len(req[r].body.steps.list) > 0
                           THEN "u_insSteps" ELSE updateNext(req[r].body, 2)]
            /\ log' = log
  /\ steps' = IF out = "ok" THEN RowsNotOf(steps, req[r].id) ELSE steps
  /\ UNCHANGED <<recipes, ingredients, recipe_tags, images, nextId>>
  /\ UNCHANGED nodeEnv

\* await from("steps").insert(stepsToInsert)
updateRecipe_insertSteps(r, out) ==
  /\ req[r].pc = "u_insSteps"
  /\ LET eff == InsertOutcome(out, req[r].id) IN
     IF eff = "ok"
       THEN /\ steps' = steps \o stepsToInsert(req[r].id, req[r].body.steps.list)
            /\ req' = [req EXCEPT ![r].pc = updateNext(req[r].body, 2)]
            /\ log' = log
       ELSE /\ updateFailed(r, Err("steps.insert", eff, ""))
            /\ UNCHANGED steps
  /\ UNCHANGED <<recipes, ingredients, recipe_tags, images, nextId>>
  /\ UNCHANGED nodeEnv

\* await from("recipe_tags").delete().eq("recipe_id", id)
updateRecipe_deleteTags(r, out) ==
  /\ req[r].pc = "u_delTags"
  /\ IF out = "throw"
       THEN updateFailed(r, Err("recipe_tags.delete", out, ""))
       ELSE /\ req' = [req EXCEPT ![r].delErr = @ \/ out = "error", ![r].pc =
                         IF Len(req[r].body.tags.list) > 0
                           THEN "u_insTags" ELSE "u_fetch"]
            /\ log' = log
  /\ recipe_tags' = IF out = "ok" THEN RowsNotOf(recipe_tags, req[r].id) ELSE recipe_tags
  /\ UNCHANGED <<recipes, ingredients, steps, images, nextId>>
  /\ UNCHANGED nodeEnv

\* await from("recipe_tags").insert(tagsToInsert)
updateRecipe_insertTags(r, out) ==
  /\ req[r].pc = "u_insTags"
  /\ LET eff == InsertOutcome(out, req[r].id) IN
     IF eff = "ok"
       THEN /\ recipe_tags' =
                 recipe_tags \o tagsToInsert(req[r].id, req[r].body.tags.list)
            /\ req' = [req EXCEPT ![r].pc = "u_fetch"]
            /\ log' = log
       ELSE /\ updateFailed(r, Err("recipe_tags.insert", eff, ""))
            /\ UNCHANGED recipe_tags
  /\ UNCHANGED <<recipes, ingredients, steps, images, nextId>>
  /\ UNCHANGED nodeEnv

\* await from("recipes").select(`*, ingredients(...), ...`).eq("id", id).single()
updateRecipe_fetch(r) ==
  /\ req[r].pc = "u_fetch"
  /\ LET id == req[r].id IN
     \E out \in SingleOutcomes(id),
        ing \in PermSeqs(RowsOf(ingredients, id)),
        stp \in PermSeqs(RowsOf(steps, id)),
        tgs \in PermSeqs(RowsOf(recipe_tags, id)) :
        IF out = "ok"
          THEN /\ req' = [req EXCEPT ![r].pc = "done",
                            ![r].resp = formatSuccess(Aggregate(id, ing, stp, tgs),
                                                      "Recipe updated successfully", 200)]
               /\ log' = log
        ELSE IF out = "empty"
          THEN /\ req' = [req EXCEPT ![r].pc = "done",
                            ![r].resp = formatSuccess(NoData,
                                                      "Recipe updated successfully", 200)]
               /\ log' = log
        ELSE updateFailed(r, SingleErr("recipes.select", out))
  /\ UNCHANGED store
  /\ UNCHANGED nodeEnv

\* ------------------------------------------------------------ deleteRecipe
\* catch (error) { console.error("Error deleting recipe:", error); next(error); }
deleteFailed(r, e) ==
  /\ req' = [req EXCEPT ![r].pc = "done", ![r].err = e, ![r].resp = errorHandler(e)]
  /\ log' = Append(log, [by |-> r, tag |-> "Error deleting recipe:", err |-> e])

\* Entry: the existence check is issued.
deleteRecipe_start(r) ==
  /\ req[r].pc = "idle"
  /\ \E id \in Ids :
     req' = [req EXCEPT ![r] = [@ EXCEPT !.op = "delete", !.id = id, !.pc = "d_check"]]
  /\ UNCHANGED <<store, log>>
  /\ UNCHANGED nodeEnv

\* The existence check without the PGRST116 and `!existingRecipe` branches.
deleteRecipe_check_noNotFound(r) ==
  /\ req[r].pc = "d_check"
  /\ \E out \in SingleOutcomes(req[r].id) :
     LET e == SingleErr("recipes.select", out) IN
     IF out \in {"PGRST116", "error", "throw"}
       THEN /\ req' = [req EXCEPT ![r].pc = "done", ![r].check = out, ![r].err = e,
                                  ![r].resp = errorHandler(e)]
            /\ log' = Append(log, [by |-> r, tag |-> "Error deleting recipe:", err |-> e])
     ELSE /\ req' = [req EXCEPT ![r].check = out, ![r].pc = "d_delete"]
          /\ log' = log
  /\ UNCHANGED store
  /\ UNCHANGED nodeEnv

\* await from("recipes").select().eq("id", id).single()
deleteRecipe_check(r) ==
  /\ req[r].pc = "d_check"
  /\ \E out \in SingleOutcomes(req[r].id) :
     LET e == SingleErr("recipes.select", out) IN
     IF out \in {"PGRST116", "empty"}
       THEN /\ req' = [req EXCEPT ![r].pc = "done", ![r].check = out,
                                  ![r].resp = formatError("Recipe not found", 404, Null)]
            /\ log' = log
     ELSE IF out # "ok"
       THEN /\ req' = [req EXCEPT ![r].pc = "done", ![r].check = out, ![r].err = e,
                                  ![r].resp = errorHandler(e)]
            /\ log' = Append(log, [by |-> r, tag |-> "Error deleting recipe:", err |-> e])
     ELSE /\ req' = [req EXCEPT ![r].check = out, ![r].pc = "d_delete"]
          /\ log' = log
  /\ UNCHANGED store
  /\ UNCHANGED nodeEnv

\* await from("recipes").delete().eq("id", id)
deleteRecipe_delete(r, out) ==
  /\ req[r].pc = "d_delete"
  /\ IF out = "ok"
       THEN /\ CascadeDelete(req[r].id)
            /\ req' = [req EXCEPT ![r].pc = "done",
                         ![r].resp = formatSuccess(NoData, "Recipe deleted successfully", 200)]
            /\ log' = log
       ELSE /\ deleteFailed(r, Err("recipes.delete", out, ""))
            /\ UNCHANGED store
  /\ UNCHANGED nodeEnv

\* ------------------------------------------------------------ getAllRecipes
\* Math.ceil(total / limit) for total >= 0 and limit # 0
Ceil(total, limit) ==
  IF limit > 0 THEN (total + limit - 1) \div limit ELSE 0 - (total \div (0 - limit))

\* formatPagination(data, total, page, limit, message); `items`: the ids of data
formatPagination(data, total, page, limit, message) ==
  [status |-> 200, kind |-> "success", message |-> message, data |-> NoData,
   err |-> NoErr, detail |-> "absent",
   page |-> [results |-> Len(data), totalItems |-> total, currentPage |-> page,
             totalPages |-> Ceil(total, limit), items |-> data]]

\* parseInt(req.query.page) || 1 and parseInt(req.query.limit) || 10
DefaultPage == 1
DefaultLimit == 10
pageOf(query) == IF Truthy(ParseInt(query.page)) THEN ParseInt(query.page).n ELSE DefaultPage
limitOf(query) ==
  IF Truthy(ParseInt(query.limit)) THEN ParseInt(query.limit).n ELSE DefaultLimit

\* The ids of table recipes in the order the store returns them (ascending).
RECURSIVE IdsInOrder(_)
IdsInOrder(S) ==
  IF S = {} THEN <<>>
  ELSE LET m == CHOOSE x \in S : \A y \in S : x <= y
       IN  <<m>> \o IdsInOrder(S \ {m})

\* range(start, end): the rows at the zero-based positions start..end
Range(q, start, end) ==
  LET lo == IF start < 0 THEN 1 ELSE start + 1
      hi == IF end + 1 > Len(q) THEN Len(q) ELSE end + 1
  IN  IF lo > hi THEN <<>> ELSE SubSeq(q, lo, hi)

\* catch (error) { console.error("Error fetching recipes:", error); next(error); }
listFailed(r, e) ==
  /\ req' = [req EXCEPT ![r].pc = "done", ![r].err = e, ![r].resp = errorHandler(e)]
  /\ log' = Append(log, [by |-> r, tag |-> "Error fetching recipes:", err |-> e])

\* Entry: page, limit, start and end are computed and the select is issued.
getAllRecipes_start(r, Queries) ==
  /\ req[r].pc = "idle"
  /\ \E query \in Queries :
     req' = [req EXCEPT ![r] =
               [@ EXCEPT !.op = "list", !.query = query, !.pc = "l_range",
                         !.start = (pageOf(query) - 1) * limitOf(query),
                         !.end = pageOf(query) * limitOf(query) - 1]]
  /\ UNCHANGED <<store, log, nodeEnv>>

\* The list response with totalPages = Math.floor(total / limit).
getAllRecipes_range_floor(r, out) ==
  /\ req[r].pc = "l_range"
  /\ IF out = "ok"
       THEN /\ req' = [req EXCEPT ![r].pc = "done", ![r].resp =
                 [formatPagination(
                    Range(IdsInOrder({row.id : row \in recipes}), req[r].start, req[r].end),
                    Cardinality(recipes), pageOf(req[r].query), limitOf(req[r].query),
                    "Recipes retrieved successfully")
                  EXCEPT !.page.totalPages = Cardinality(recipes) \div limitOf(req[r].query)]]
            /\ log' = log
       ELSE listFailed(r, Err("recipes.select", out, ""))
  /\ UNCHANGED <<store, nodeEnv>>

\* await from("recipes").select("*", { count: "exact" }).range(start, end)
getAllRecipes_range(r, out) ==
  /\ req[r].pc = "l_range"
  /\ IF out = "ok"
       THEN /\ req' = [req EXCEPT ![r].pc = "done", ![r].resp =
                 formatPagination(
                   Range(IdsInOrder({row.id : row \in recipes}), req[r].start, req[r].end),
                   Cardinality(recipes), pageOf(req[r].query), limitOf(req[r].query),
                   "Recipes retrieved successfully")]
            /\ log' = log
       ELSE listFailed(r, Err("recipes.select", out, ""))
  /\ UNCHANGED <<store, nodeEnv>>

\* ------------------------------------------------------------ getRecipeById
\* Array.prototype.sort((a, b) => (a[key] || 0) - (b[key] || 0)) on rows whose
\* keys are `keys`: ascending, rows of equal key in their old order.
SortRows(q, keys) ==
  LET p == CHOOSE f \in Permutations(1..Len(q)) :
             \A i, j \in 1..Len(q) :
               i < j => \/ keys[f[i]] < keys[f[j]]
                        \/ keys[f[i]] = keys[f[j]] /\ f[i] < f[j]
  IN  [i \in 1..Len(q) |-> q[p[i]]]

\* Entry: `id` comes from the route; the joined select is issued.
getRecipeById_start(r) ==
  /\ req[r].pc = "idle"
  /\ \E id \in Ids :
     req' = [req EXCEPT ![r] = [@ EXCEPT !.op = "get", !.id = id, !.pc = "g_fetch"]]
  /\ UNCHANGED <<store, log, nodeEnv>>

\* await from("recipes").select(`*, ingredients(...), ...`).eq("id", id).single(),
\* then ingredients and steps are sorted.
getRecipeById_fetch(r) ==
  /\ req[r].pc = "g_fetch"
  /\ LET id == req[r].id IN
     \E out \in SingleOutcomes(id),
        ing \in PermSeqs(RowsOf(ingredients, id)),
        stp \in PermSeqs(RowsOf(steps, id)),
        tgs \in PermSeqs(RowsOf(recipe_tags, id)) :
        LET e == SingleErr("recipes.select", out) IN
        IF out = "ok"
          THEN /\ req' = [req EXCEPT ![r].pc = "done", ![r].check = out,
                            ![r].resp = formatSuccess(
                               Aggregate(id,
                                 SortRows(ing, [i \in 1..Len(ing) |-> ing[i].order]),
                                 SortRows(stp, [i \in 1..Len(stp) |-> stp[i].step_number]),
                                 tgs),
                               "Recipe retrieved successfully", 200)]
               /\ log' = log
        ELSE IF out \in {"PGRST116", "empty"}
          THEN /\ req' = [req EXCEPT ![r].pc = "done", ![r].check = out,
                            ![r].resp = formatError("Recipe not found", 404, Null)]
               /\ log' = log
        ELSE /\ req' = [req EXCEPT ![r].pc = "done", ![r].check = out, ![r].err = e,
                                   ![r].resp = errorHandler(e)]
             /\ log' = Append(log, [by |-> r, tag |-> "Error fetching recipe:", err |-> e])
  /\ UNCHANGED <<store, nodeEnv>>

\* ------------------------------------------------- router and auth middleware
\* The routes of the recipe router; "GET" is the main route of the index.
AuthRoutes == {"POST /recipes", "PUT /recipes/:id", "DELETE /recipes/:id"}
OpenRoutes == {"GET /recipes", "GET /recipes/:id"}

Bearer == <<"B", "e", "a", "r", "e", "r", " ">>

\* String.prototype.startsWith
StartsWith(q, prefix) ==
  Len(q) >= Len(prefix) /\ SubSeq(q, 1, Len(prefix)) = prefix

\* authHeader && authHeader.startsWith("Bearer ")
HasBearer(header) == Truthy(header) /\ StartsWith(header.s, Bearer)

\* authHeader.replace("Bearer ", "") on a header that starts with "Bearer "
tokenOf(header) == SubSeq(header.s, Len(Bearer) + 1, Len(header.s))

\* The Authorization headers of a request: none, a bare token, "Bearer "
\* alone, a bearer token the auth service knows and one it does not.
Headers ==
  { Undef, Str(<<"g">>), Str(Bearer), Str(Bearer \o <<"g">>), Str(Bearer \o <<"b">>) }
ValidTokens == { <<"g">> }

\* What supabase.auth.getUser(token) answers: the user, { error }, a null
\* user, or a rejection.
GetUserOutcomes(token) ==
  IF token \in ValidTokens THEN {"user", "error", "throw"} ELSE {"error", "nouser", "throw"}

\* A body sent by the auth middleware: { error, message }, no `status` field.
authBody(statusCode, message) ==
  [status |-> statusCode, kind |-> "missing", message |-> message, data |-> NoData,
   err |-> NoErr, detail |-> "label", page |-> NoPage]

\* verifyAuth up to its await: the header test.
verifyAuth_start(r) ==
  /\ req[r].pc = "arrived"
  /\ \E route \in AuthRoutes, header \in Headers :
     req' = [req EXCEPT ![r] =
               IF HasBearer(header)
                 THEN [@ EXCEPT !.route = route, !.header = header, !.pc = "v_getUser"]
                 ELSE [@ EXCEPT !.route = route, !.header = header, !.pc = "done",
                          !.resp = authBody(401, "Auth token missing or malformed")]]
  /\ UNCHANGED <<store, log, nodeEnv>>

\* verifyAuth without `if (error || !user) return res.status(401)`.
verifyAuth_getUser_unchecked(r) ==
  /\ req[r].pc = "v_getUser"
  /\ \E out \in GetUserOutcomes(tokenOf(req[r].header)) :
     IF out = "throw"
       THEN /\ req' = [req EXCEPT ![r].pc = "done", ![r].auth = out,
                         ![r].resp = authBody(500, "An error occurred during authentication")]
            /\ log' = Append(log, [by |-> r, tag |-> "Authentication error:",
                                   err |-> Err("auth.getUser", "throw", "")])
       ELSE /\ req' = [req EXCEPT ![r].pc = "idle", ![r].auth = out]
            /\ log' = log
  /\ UNCHANGED <<store, nodeEnv>>

\* await supabase.auth.getUser(token), then 401 or next(): the handler runs
\* from pc "idle".
verifyAuth_getUser(r) ==
  /\ req[r].pc = "v_getUser"
  /\ \E out \in GetUserOutcomes(tokenOf(req[r].header)) :
     IF out = "throw"
       THEN /\ req' = [req EXCEPT ![r].pc = "done", ![r].auth = out,
                         ![r].resp = authBody(500, "An error occurred during authentication")]
            /\ log' = Append(log, [by |-> r, tag |-> "Authentication error:",
                                   err |-> Err("auth.getUser", "throw", "")])
     ELSE IF out \in {"error", "nouser"}
       THEN /\ req' = [req EXCEPT ![r].pc = "done", ![r].auth = out,
                         ![r].resp = authBody(401, "Token is invalid or expired")]
            /\ log' = log
     ELSE /\ req' = [req EXCEPT ![r].pc = "idle", ![r].auth = out]
          /\ log' = log
  /\ UNCHANGED <<store, nodeEnv>>

\* optionalAuth up to its await, or to next() when there is no bearer token.
optionalAuth_start(r) ==
  /\ req[r].pc = "arrived"
  /\ \E route \in OpenRoutes, header \in Headers :
     req' = [req EXCEPT ![r] =
               [@ EXCEPT !.route = route, !.header = header,
                         !.pc = IF HasBearer(header) THEN "o_getUser" ELSE "idle"]]
  /\ UNCHANGED <<store, log, nodeEnv>>

\* await supabase.auth.getUser(token): next() whatever the answer.
optionalAuth_getUser(r) ==
  /\ req[r].pc = "o_getUser"
  /\ \E out \in GetUserOutcomes(tokenOf(req[r].header)) :
     /\ req' = [req EXCEPT ![r].pc = "idle", ![r].auth = out]
     /\ log' = IF out = "throw"
                 THEN Append(log, [by |-> r, tag |-> "Optional auth error:",
                                   err |-> Err("auth.getUser", "throw", "")])
                 ELSE log
  /\ UNCHANGED <<store, nodeEnv>>

\* router.get("/", ...): the index body { info, version, endpoints }.
mainRoute(r) ==
  /\ req[r].pc = "arrived"
  /\ req' = [req EXCEPT ![r].route = "GET /", ![r].pc = "done",
               ![r].resp = [NoResp EXCEPT !.status = 200, !.kind = "missing"]]
  /\ UNCHANGED <<store, log, nodeEnv>>

\* notFoundHandler: a request no route matches.
notFoundHandler(r) ==
  /\ req[r].pc = "arrived"
  /\ req' = [req EXCEPT ![r].route = "unmatched", ![r].pc = "done",
               ![r].resp = [NoResp EXCEPT !.status = 404, !.kind = "error",
                                          !.message = "Route not found"]]
  /\ UNCHANGED <<store, log, nodeEnv>>

\* ------------------------------------------- the formatters on their own
\* The arguments formatError and errorHandler are applied to.
Messages == {"Recipe not found", "Name is required"}
StatusCodes == {400, 404, 500}
ErrorArgs == {Undef, Null, Str(<<"e">>)}
ThrownErrors == {TypeError, Err("recipes.select", "error", "PGRST116"),
                 Err("recipes.insert", "throw", "")}

\* formatError(message, statusCode, error) applied to arguments of the sets
\* above (`error` undefined takes the default null).
formatError_call(r) ==
  /\ req[r].pc = "idle"
  /\ \E message \in Messages, statusCode \in StatusCodes, error \in ErrorArgs :
     req' = [req EXCEPT ![r] =
               [@ EXCEPT !.op = "formatError", !.arg = error, !.pc = "done",
                         !.resp = formatError(message, statusCode,
                                              IF error = Undef THEN Null ELSE error)]]
  /\ UNCHANGED <<store, log, nodeEnv>>

\* errorHandler(err, req, res, next) applied to an error handed to next().
errorHandler_call(r) ==
  /\ req[r].pc = "idle"
  /\ \E e \in ThrownErrors :
     req' = [req EXCEPT ![r] =
               [@ EXCEPT !.op = "errorHandler", !.err = e, !.pc = "done",
                         !.resp = errorHandler(e)]]
  /\ UNCHANGED <<store, log, nodeEnv>>

\* ------------------------------------------------------------ request bodies
ValidBody ==
  [NoBody EXCEPT !.name = Str(<<"a">>), !.prepTime = Num(1), !.servings = Num(1),
                 !.difficulty = Num(1), !.ingredients = List(<<Undef>>),
                 !.steps = List(<<Undef>>), !.isPublic = Bool(TRUE)]

\* The create bodies of Spec: two valid ones (the second with out-of-order
\* ingredients, tags and images) and one that fails validation.
CreateBodies ==
  { ValidBody,
    [ValidBody EXCEPT !.ingredients = List(<<Num(2), Num(1)>>), !.tags = List(<<1>>),
                      !.images = List(<<1>>)],
    [ValidBody EXCEPT !.servings = Num(0)] }

\* The update bodies of Spec.
UpdateBodies ==
  { NoBody,
    [NoBody EXCEPT !.difficulty = Num(6)],
    [NoBody EXCEPT !.prepTime = Num(2), !.steps = List(<<Num(2), Num(1)>>)],
    [NoBody EXCEPT !.ingredients = List(<<>>)],
    [NoBody EXCEPT !.ingredients = List(<<Num(3)>>), !.tags = List(<<>>)],
    [NoBody EXCEPT !.ingredients = List(<<Num(4)>>)],
    [NoBody EXCEPT !.name = Num(7)],
    [NoBody EXCEPT !.tags = List(<<2>>), !.steps = List(<<>>)] }

\* The create bodies of SpecCreate: every combination of these field values.
WideBodies ==
  { [name |-> nm, description |-> Undef, prepTime |-> pt, servings |-> sv,
     difficulty |-> df, ingredients |-> ing, steps |-> stp, tags |-> tgs,
     images |-> img, isPublic |-> pub] :
      nm \in {Undef, Str(<<>>), Str(<<" ">>), Str(<<" ", "a">>), Num(7)},
      pt \in {Undef, Num(0), Num(1), Str(<<"x">>), Str(<<"2", "x">>)},
      sv \in {Num(0), Num(1), Num(-1)},
      df \in {Num(0), Num(1), Num(5), Num(6)},
      ing \in {NoList, NotAList, List(<<>>), List(<<Num(2), Num(1)>>)},
      stp \in {NoList, List(<<>>), List(<<Undef, Undef>>)},
      tgs \in {NoList, List(<<1>>)},
      img \in {NoList, List(<<1>>)},
      pub \in {Undef, Null, Bool(FALSE)} }

\* The query strings of a list request.
Queries ==
  { [page |-> pg, limit |-> lm] :
      pg \in {Undef, Str(<<"0">>), Str(<<"1">>), Str(<<"2">>), Str(<<"3">>)},
      lm \in {Undef, Str(<<"1">>), Str(<<"3">>), Str(<<"1", "0">>)} }

\* The query strings of SpecListAny: absent, non-numeric, zero, negative and
\* positive values of both parameters.
WideQueries ==
  { [page |-> pg, limit |-> lm] :
      pg \in {Undef, Str(<<"x">>), Str(<<"0">>), Str(<<"-", "1">>), Str(<<"2">>)},
      lm \in {Undef, Str(<<"x">>), Str(<<"0">>), Str(<<"-", "5">>), Str(<<"3">>)} }

\* The update bodies of SpecUpdate: every combination of these field values.
WideUpdateBodies ==
  { [name |-> nm, description |-> ds, prepTime |-> pt, servings |-> sv,
     difficulty |-> df, ingredients |-> ing, steps |-> stp, tags |-> tgs,
     images |-> NoList, isPublic |-> Undef] :
      nm \in {Undef, Str(<<>>), Str(<<" ", "b">>)},
      ds \in {Undef, Null, Str(<<>>), Str(<<"e", " ">>)},
      pt \in {Undef, Num(0), Str(<<"4">>)},
      sv \in {Undef, Num(0), Num(3)},
      df \in {Undef, Num(0), Num(2)},
      ing \in {NoList, List(<<Num(0), Num(5)>>)},
      stp \in {NoList, List(<<Undef, Num(0)>>)},
      tgs \in {NoList, List(<<2>>)} }
  \cup { [NoBody EXCEPT !.isPublic = Bool(FALSE)] }

\* ------------------------------------------------------------ specifications
\* The modes the server may run in ("": NODE_ENV is not set).
Envs == {"development", "production", ""}

\* A recipe the store already holds when the server starts.
SeedRecipe ==
  [id |-> 1, name |-> <<"s">>, description |-> <<"d">>, prep_time |-> Num(1),
   servings |-> Num(1), difficulty |-> Num(1)]

SeedIngredients == <<[recipe_id |-> 1, order |-> 1], [recipe_id |-> 1, order |-> 2]>>

InitEmpty ==
  /\ recipes = {}
  /\ ingredients = <<>>
  /\ steps = <<>>
  /\ recipe_tags = <<>>
  /\ images = <<>>
  /\ nextId = 1
  /\ req = [r \in Reqs |-> IdleReq]
  /\ log = <<>>
  /\ nodeEnv \in Envs

InitSeeded ==
  /\ recipes = {SeedRecipe}
  /\ ingredients = SeedIngredients
  /\ steps = <<[recipe_id |-> 1, step_number |-> 1]>>
  /\ recipe_tags = <<[recipe_id |-> 1, tag_id |-> 1]>>
  /\ images = <<>>
  /\ nextId = 2
  /\ req = [r \in Reqs |-> IdleReq]
  /\ log = <<>>
  /\ nodeEnv \in Envs

Init == InitEmpty \/ InitSeeded

\* The steps of request r: the handlers the router mounts on /recipes.
Handlers(r) ==
  \/ createRecipe_start(r, CreateBodies)
  \/ createRecipe_fetch(r)
  \/ updateRecipe_start(r, UpdateBodies)
  \/ updateRecipe_check(r)
  \/ updateRecipe_fetch(r)
  \/ deleteRecipe_start(r)
  \/ deleteRecipe_check(r)
  \/ \E out \in StoreOutcomes :
       \/ createRecipe_insertRecipe(r, out)
       \/ createRecipe_insertIngredients(r, out)
       \/ createRecipe_insertSteps(r, out)
       \/ createRecipe_insertTags(r, out)
       \/ createRecipe_rollback(r, out)
       \/ updateRecipe_update(r, out)
       \/ updateRecipe_deleteIngredients(r, out)
       \/ updateRecipe_insertIngredients(r, out)
       \/ updateRecipe_deleteSteps(r, out)
       \/ updateRecipe_insertSteps(r, out)
       \/ updateRecipe_deleteTags(r, out)
       \/ updateRecipe_insertTags(r, out)
       \/ deleteRecipe_delete(r, out)

\* Requests interleave at their awaits.
Next == \E r \in Reqs : Handlers(r)

Spec == Init /\ [][Next]_vars

\* One createRecipe request on an empty store, over every body of WideBodies.
NextCreate ==
  \/ createRecipe_start(1, WideBodies)
  \/ createRecipe_fetch(1)
  \/ \E out \in StoreOutcomes :
       \/ createRecipe_insertRecipe(1, out)
       \/ createRecipe_insertIngredients(1, out)
       \/ createRecipe_insertSteps(1, out)
       \/ createRecipe_insertTags(1, out)
       \/ createRecipe_rollback(1, out)

SpecCreate == InitEmpty /\ [][NextCreate]_vars

\* One request at a time: a single request, of any handler, on either store.
NextOne == Handlers(1)

SpecOne == Init /\ [][NextOne]_vars

\* The formatters applied to arguments, in each mode of the server.
NextEnvelope == \E r \in Reqs : formatError_call(r) \/ errorHandler_call(r)

SpecEnvelope == InitEmpty /\ [][NextEnvelope]_vars

\* One getAllRecipes request on a store that holds 0..MaxRows recipes.
InitList ==
  /\ \E n \in 0..MaxRows :
       /\ recipes = {[SeedRecipe EXCEPT !.id = i] : i \in 1..n}
       /\ nextId = n + 1
  /\ ingredients = <<>>
  /\ steps = <<>>
  /\ recipe_tags = <<>>
  /\ images = <<>>
  /\ req = [r \in Reqs |-> IdleReq]
  /\ log = <<>>
  /\ nodeEnv \in Envs

NextList ==
  \/ getAllRecipes_start(1, Queries)
  \/ \E out \in StoreOutcomes : getAllRecipes_range(1, out)

SpecList == InitList /\ [][NextList]_vars

\* One getAllRecipes request with any query string of WideQueries.
NextListAny ==
  \/ getAllRecipes_start(1, WideQueries)
  \/ \E out \in StoreOutcomes : getAllRecipes_range(1, out)

SpecListAny == InitList /\ [][NextListAny]_vars

\* One updateRecipe request on the seeded store, over every body of
\* WideUpdateBodies.
NextUpdate ==
  \/ updateRecipe_start(1, WideUpdateBodies)
  \/ updateRecipe_check(1)
  \/ updateRecipe_fetch(1)
  \/ \E out \in StoreOutcomes :
       \/ updateRecipe_update(1, out)
       \/ updateRecipe_deleteIngredients(1, out)
       \/ updateRecipe_insertIngredients(1, out)
       \/ updateRecipe_deleteSteps(1, out)
       \/ updateRecipe_insertSteps(1, out)
       \/ updateRecipe_deleteTags(1, out)
       \/ updateRecipe_insertTags(1, out)

SpecUpdate == InitSeeded /\ [][NextUpdate]_vars

\* One request from its arrival at the router: the middleware of its route,
\* then the handler of its route, on either store.
InitAuth ==
  /\ \/ /\ recipes = {}
        /\ ingredients = <<>>
        /\ steps = <<>>
        /\ recipe_tags = <<>>
        /\ nextId = 1
     \/ /\ recipes = {SeedRecipe}
        /\ ingredients = SeedIngredients
        /\ steps = <<[recipe_id |-> 1, step_number |-> 1]>>
        /\ recipe_tags = <<[recipe_id |-> 1, tag_id |-> 1]>>
        /\ nextId = 2
  /\ images = <<>>
  /\ req = [r \in Reqs |-> [IdleReq EXCEPT !.pc = "arrived"]]
  /\ log = <<>>
  /\ nodeEnv \in Envs

NextAuth ==
  \/ mainRoute(1)
  \/ notFoundHandler(1)
  \/ verifyAuth_start(1)
  \/ verifyAuth_getUser(1)
  \/ optionalAuth_start(1)
  \/ optionalAuth_getUser(1)
  \/ req[1].route = "GET /recipes" /\ getAllRecipes_start(1, Queries)
  \/ req[1].route = "GET /recipes/:id" /\ getRecipeById_start(1)
  \/ req[1].route = "POST /recipes" /\ createRecipe_start(1, CreateBodies)
  \/ req[1].route = "PUT /recipes/:id" /\ updateRecipe_start(1, UpdateBodies)
  \/ req[1].route = "DELETE /recipes/:id" /\ deleteRecipe_start(1)
  \/ getRecipeById_fetch(1)
  \/ createRecipe_fetch(1)
  \/ updateRecipe_check(1)
  \/ updateRecipe_fetch(1)
  \/ deleteRecipe_check(1)
  \/ \E out \in StoreOutcomes :
       \/ getAllRecipes_range(1, out)
       \/ createRecipe_insertRecipe(1, out)
       \/ createRecipe_insertIngredients(1, out)
       \/ createRecipe_insertSteps(1, out)
       \/ createRecipe_insertTags(1, out)
       \/ createRecipe_rollback(1, out)
       \/ updateRecipe_update(1, out)
       \/ updateRecipe_deleteIngredients(1, out)
       \/ updateRecipe_insertIngredients(1, out)
       \/ updateRecipe_deleteSteps(1, out)
       \/ updateRecipe_insertSteps(1, out)
       \/ updateRecipe_deleteTags(1, out)
       \/ updateRecipe_insertTags(1, out)
       \/ deleteRecipe_delete(1, out)

SpecAuth == InitAuth /\ [][NextAuth]_vars

\* ------------------------------------------------------------------ claims
IsCreate(r) == req[r].op = "create"
IsUpdate(r) == req[r].op = "update"
IsDelete(r) == req[r].op = "delete"
Done(r) == req[r].pc = "done"
Status(r) == req[r].resp.status

\* C1: when a createRecipe request whose recipe row was inserted has run its
\* compensating delete and the delete succeeded, the finished request leaves
\* no recipe row with the generated id.
C1_RollbackRemovesRecipe ==
  \A r \in Reqs :
    (IsCreate(r) /\ Done(r) /\ req[r].rollback = "ok") => ~HasRecipe(req[r].recipeId)

\* A steps insert returned an error after the recipe and ingredients inserts,
\* and the compensating delete succeeded.
C1_Witness ==
  \E r \in Reqs :
    /\ IsCreate(r) /\ Done(r) /\ req[r].rollback = "ok"
    /\ req[r].err = Err("steps.insert", "error", "")
    /\ req[r].recipeId \in Ids

\* C2: when the compensating delete returns an error, the request logs that
\* failure as an event of its own (an event about the delete), besides the
\* log of the original error.
C2_RollbackFailureLogged ==
  \A r \in Reqs :
    (IsCreate(r) /\ Done(r) /\ req[r].rollback = "error") =>
      \E i \in DOMAIN log : log[i].by = r /\ log[i].err.src = "recipes.delete"

\* C3: after a failed step behind the recipe insert, the error handed to the
\* error handler is the error of that step, whatever the compensating delete did.
C3_OriginalErrorPropagated ==
  \A r \in Reqs :
    (IsCreate(r) /\ Done(r) /\ req[r].rollback # "none") => req[r].resp.err = req[r].err

\* The validation rules as the specification states them, field by field.
FieldOk(body, f) ==
  CASE f = "name" -> body.name.t = "str" /\ Trim(body.name.s) # <<>>
    [] f = "prepTime" -> body.prepTime.t = "num" /\ body.prepTime.n >= 1
    [] f = "servings" -> body.servings.t = "num" /\ body.servings.n >= 1
    [] f = "difficulty" -> body.difficulty.t = "num" /\ body.difficulty.n \in 1..5
    [] f = "ingredients" -> body.ingredients.k = "array" /\ Len(body.ingredients.list) > 0
    [] f = "steps" -> body.steps.k = "array" /\ Len(body.steps.list) > 0
    [] f = "isPublic" -> body.isPublic.t \notin {"undef", "null"}

StatedFields == {"name", "prepTime", "servings", "difficulty", "ingredients", "steps"}
StatedRulesHold(body) == \A f \in StatedFields : FieldOk(body, f)

\* prepTime = 0, servings = 0, difficulty = 6 or ingredients = [], every other
\* field valid.
C4Case(body) ==
  \E f \in {"prepTime", "servings", "difficulty", "ingredients"} :
    /\ \A g \in (StatedFields \cup {"isPublic"}) \ {f} : FieldOk(body, g)
    /\ CASE f = "prepTime" -> body.prepTime = Num(0)
         [] f = "servings" -> body.servings = Num(0)
         [] f = "difficulty" -> body.difficulty = Num(6)
         [] f = "ingredients" -> body.ingredients = List(<<>>)

StoreIsEmpty ==
  /\ recipes = {} /\ ingredients = <<>> /\ steps = <<>> /\ recipe_tags = <<>>
  /\ images = <<>> /\ nextId = 1

\* C4: a createRecipe request with prepTime = 0, servings = 0, difficulty = 6
\* or ingredients = [] (the other fields valid) is answered 400 at once and
\* writes nothing to the store.
C4_InvalidCreateRejected ==
  \A r \in Reqs :
    (IsCreate(r) /\ C4Case(req[r].body)) => (Done(r) /\ Status(r) = 400 /\ StoreIsEmpty)

\* All four cases have been answered: difficulty = 6 here.
C4_Witness ==
  \E r \in Reqs :
    /\ IsCreate(r) /\ C4Case(req[r].body) /\ req[r].body.difficulty = Num(6)
    /\ Status(r) = 400

\* The request got past validation: the recipe insert was issued.
ReachedInsert(r) ==
  \/ req[r].pc \in {"insRecipe", "insIngredients", "insSteps", "insTags", "fetch", "rollback"}
  \/ Done(r) /\ (Status(r) = 201 \/ req[r].resp.err.src \notin {"none", "handler"})

IsSorted(q) == \A i \in 1..(Len(q) - 1) : q[i] <= q[i + 1]

\* C6: the aggregate of a 201 response has its ingredients ascending by order
\* and its steps ascending by step_number.
C6_CreatedAggregateSorted ==
  \A r \in Reqs :
    (IsCreate(r) /\ Status(r) = 201) =>
      (IsSorted(req[r].resp.data.ingredients) /\ IsSorted(req[r].resp.data.steps))

\* The rows of the request's ingredients, steps and tags are in the store.
DependentsInserted(r) ==
  LET id == req[r].recipeId
      body == req[r].body
  IN  /\ HasRecipe(id)
      /\ RowsOf(ingredients, id) = ingredientsToInsert(id, body.ingredients.list)
      /\ RowsOf(steps, id) = stepsToInsert(id, body.steps.list)
      /\ body.tags.k = "array" => RowsOf(recipe_tags, id) = tagsToInsert(id, body.tags.list)

\* The request's images are in the store.
ImagesInserted(r) ==
  req[r].body.images.k = "array" =>
    Len(RowsOf(images, req[r].recipeId)) = Len(req[r].body.images.list)

\* The response body is the joined select of the stored recipe.
BodyIsStoredAggregate(r) ==
  LET id == req[r].recipeId IN
  \E ing \in PermSeqs(RowsOf(ingredients, id)), stp \in PermSeqs(RowsOf(steps, id)),
     tgs \in PermSeqs(RowsOf(recipe_tags, id)) :
    req[r].resp.data = Aggregate(id, ing, stp, tgs)

Alone(r) == \A q \in Reqs \ {r} : req[q].pc = "idle"

\* C8: an update that omits ingredients leaves the ingredient rows as they
\* were; an update with ingredients = [] that is answered 200 leaves the
\* recipe without ingredient rows.
C8_OmittedKeepsEmptyClears ==
  \A r \in Reqs :
    (IsUpdate(r) /\ Alone(r)) =>
      /\ req[r].body.ingredients.k # "array" => ingredients \in {<<>>, SeedIngredients}
      /\ (req[r].body.ingredients = List(<<>>) /\ Status(r) = 200) =>
           RowsOf(ingredients, req[r].id) = <<>>

\* C9: a deleteRecipe request whose existence check finds no row (the store
\* answers PGRST116, or no data) is answered 404, and a delete is answered 200
\* only when the check found the row.
C9_DeleteMissingIs404 ==
  \A r \in Reqs :
    IsDelete(r) =>
      /\ req[r].check \in {"PGRST116", "empty"} => (Done(r) /\ Status(r) = 404)
      /\ Status(r) = 200 => req[r].check = "ok"

\* A delete of a missing recipe, told PGRST116 by the store, was answered 404.
C9_Witness ==
  \E r \in Reqs :
    /\ IsDelete(r) /\ ~HasRecipe(req[r].id)
    /\ req[r].check = "PGRST116" /\ Status(r) = 404

\* C10: every stored recipe row has difficulty in 1..5, prep_time >= 1 and
\* servings >= 1.
C10_StoredScalarsValid ==
  \A row \in recipes :
    /\ row.difficulty.t = "num" /\ row.difficulty.n \in 1..5
    /\ row.prep_time.t = "num" /\ row.prep_time.n >= 1
    /\ row.servings.t = "num" /\ row.servings.n >= 1

\* Both requests are 200-answered updateRecipe requests on one recipe, each
\* with an ingredients list of its own, and no delete of either returned an
\* error.
BothUpdatedIngredients(r, q) ==
  /\ r # q
  /\ IsUpdate(r) /\ IsUpdate(q)
  /\ req[r].id = req[q].id
  /\ req[r].body.ingredients.k = "array" /\ req[q].body.ingredients.k = "array"
  /\ req[r].body.ingredients # req[q].body.ingredients
  /\ Status(r) = 200 /\ Status(q) = 200
  /\ ~req[r].delErr /\ ~req[q].delErr

\* C11: when two updateRecipe requests on the same recipe, each supplying an
\* ingredients list, have both completed, the stored ingredients of the recipe
\* are the list of exactly one of them, never a mixture or union of both.
C11_LastWriterWins ==
  \A r, q \in Reqs :
    BothUpdatedIngredients(r, q) =>
      RowsOf(ingredients, req[r].id) \in
        { ingredientsToInsert(req[r].id, req[r].body.ingredients.list),
          ingredientsToInsert(req[q].id, req[q].body.ingredients.list) }

\* A store read of request r reported the "no matching row" code: its
\* existence check, or the read whose error the request carries.
SawNoRow(r) == req[r].check = "PGRST116" \/ req[r].err.code = "PGRST116"

\* C12: a request one of whose store reads reported PGRST116 is answered 404,
\* never 500; the re-fetches of createRecipe and updateRecipe included.
C12_NoRowIs404 ==
  \A r \in Reqs : Done(r) /\ SawNoRow(r) => Status(r) = 404

\* The header of request r carries no bearer token: it is absent, empty,
\* shorter than "Bearer " or differs from it in one of its first characters.
NoBearer(r) ==
  LET h == req[r].header IN
  \/ h.t = "undef"
  \/ Len(h.s) < 7
  \/ \E i \in 1..7 : h.s[i] # Bearer[i]

\* The store is as the server found it.
StoreUntouched ==
  \/ StoreIsEmpty
  \/ /\ recipes = {SeedRecipe}
     /\ ingredients = SeedIngredients
     /\ steps = <<[recipe_id |-> 1, step_number |-> 1]>>
     /\ recipe_tags = <<[recipe_id |-> 1, tag_id |-> 1]>>

\* C13: on a required-auth route, a request whose Authorization header is
\* absent or does not start with "Bearer ", or whose token the auth service
\* rejects, is answered 401; its handler never runs and the store is untouched.
C13_RejectedIs401 ==
  \A r \in Reqs :
    /\ req[r].route \in AuthRoutes
    /\ NoBearer(r) \/ req[r].auth \in {"error", "nouser"}
    => /\ Done(r)
       /\ Status(r) = 401
       /\ req[r].op = "none"
       /\ StoreUntouched

\* C13 happens: a PUT whose bearer token the auth service does not know was
\* answered 401 with the seeded recipe untouched.
C13_Witness ==
  \E r \in Reqs :
    /\ req[r].route = "PUT /recipes/:id"
    /\ req[r].header = Str(Bearer \o <<"b">>)
    /\ req[r].auth = "nouser"
    /\ Status(r) = 401
    /\ recipes = {SeedRecipe}

\* C14: every response body sent for a request to a recipe route or to an
\* unmatched route (by a handler, by the auth middleware, by the not-found
\* handler or by the error handler) has a status field, "success" or "error".
C14_BodyHasStatus ==
  \A r \in Reqs :
    Done(r) /\ req[r].route \in AuthRoutes \cup OpenRoutes \cup {"unmatched"}
      => req[r].resp.kind \in {"success", "error"}

\* The body of the response to r has an error detail: the key `error` is
\* there and holds a value.
HasErrorDetail(r) == req[r].resp.detail \in {"given", "stack"}

\* C15: a body built by formatError or by the error handler has an error
\* detail only when NODE_ENV is "development"; in any other mode the field is
\* absent or undefined.
C15_DetailOnlyInDevelopment ==
  \A r \in Reqs :
    req[r].op \in {"formatError", "errorHandler"} /\ HasErrorDetail(r)
      => nodeEnv = "development"

\* C15 happens: in production, formatError was given an error detail and the
\* error handler handled an error, and neither body has the detail.
C15_Witness ==
  /\ nodeEnv = "production"
  /\ \E r, q \in Reqs :
       /\ req[r].op = "formatError" /\ Truthy(req[r].arg)
       /\ req[r].resp.detail = "absent"
       /\ req[q].op = "errorHandler" /\ req[q].resp.detail = "undefined"

\* The page and the limit a query string asks for, by the stated defaults:
\* page 1 and limit 10 when the parameter is absent or 0.
StatedPage(query) ==
  CASE query.page = Str(<<"2">>) -> 2
    [] query.page = Str(<<"3">>) -> 3
    [] OTHER -> 1
StatedLimit(query) ==
  CASE query.limit = Str(<<"1">>) -> 1
    [] query.limit = Str(<<"3">>) -> 3
    [] OTHER -> 10

IsList(r) == req[r].op = "list"

\* C16: for page p >= 1 and limit l >= 1 getAllRecipes asks the store for the
\* rows (p-1)*l .. p*l-1, and its 200 response has results = the number of
\* rows of that window, totalItems = the row count, currentPage = p and
\* totalPages = ceil(totalItems / l); page 2 of limit 10 on 25 rows has 10
\* results and totalPages 3.
C16_PaginationMath ==
  \A r \in Reqs :
    IsList(r) =>
      LET p == StatedPage(req[r].query)
          l == StatedLimit(req[r].query)
          total == Cardinality(recipes)
          pg == req[r].resp.page
      IN  /\ req[r].start = (p - 1) * l
          /\ req[r].end = p * l - 1
          /\ Status(r) = 200 =>
               /\ pg.results = Cardinality({i \in 0..(total - 1) : (p - 1) * l <= i /\ i <= p * l - 1})
               /\ pg.results = Len(pg.items)
               /\ pg.totalItems = total
               /\ pg.currentPage = p
               /\ pg.totalPages * l >= total
               /\ (pg.totalPages - 1) * l < total
               /\ p = 2 /\ l = 10 /\ total = 25 => pg.results = 10 /\ pg.totalPages = 3

\* C16 happens: page 2 of limit 10 was served from 25 rows.
C16_Witness ==
  \E r \in Reqs :
    /\ IsList(r) /\ Status(r) = 200
    /\ req[r].query = [page |-> Str(<<"2">>), limit |-> Str(<<"1", "0">>)]
    /\ Cardinality(recipes) = 25
    /\ req[r].resp.page.results = 10
    /\ req[r].resp.page.totalPages = 3
    /\ req[r].resp.page.currentPage = 2

\* undefined or falsy
UndefinedOrFalsy(v) == v \in {Undef, Null, NaN, Num(0), Bool(FALSE), Str(<<>>)}

\* The seeded recipe as an update with this body is stated to leave it.
StatedUpdate(body) ==
  [id |-> SeedRecipe.id,
   name |-> IF UndefinedOrFalsy(body.name) THEN SeedRecipe.name ELSE Trim(body.name.s),
   description |->
     IF body.description = Undef THEN SeedRecipe.description ELSE Trim(body.description.s),
   prep_time |->
     IF UndefinedOrFalsy(body.prepTime) THEN SeedRecipe.prep_time ELSE ParseInt(body.prepTime),
   servings |->
     IF UndefinedOrFalsy(body.servings) THEN SeedRecipe.servings ELSE ParseInt(body.servings),
   difficulty |->
     IF UndefinedOrFalsy(body.difficulty) THEN SeedRecipe.difficulty
     ELSE ParseInt(body.difficulty)]

\* C17: updateRecipe writes only the scalar fields the request supplies: name,
\* prepTime, servings and difficulty keep their stored value when undefined or
\* falsy, and description is written whenever it is not undefined, the empty
\* string included. The row is the seeded one until the update is applied, and
\* the stated one once the request is answered 200.
C17_OnlySuppliedScalarsWritten ==
  \A r \in Reqs :
    IsUpdate(r) /\ req[r].id = SeedRecipe.id =>
      /\ RecipeRow(SeedRecipe.id) \in {SeedRecipe, StatedUpdate(req[r].body)}
      /\ Status(r) = 200 => RecipeRow(SeedRecipe.id) = StatedUpdate(req[r].body)

\* C17 happens: a 200-answered update with an empty name, prepTime 0 and the
\* empty description cleared the description and left name and prep_time.
C17_Witness ==
  \E r \in Reqs :
    /\ IsUpdate(r) /\ Status(r) = 200
    /\ req[r].body.name = Str(<<>>)
    /\ req[r].body.prepTime = Num(0)
    /\ req[r].body.description = Str(<<>>)
    /\ req[r].body.servings = Num(3)
    /\ RecipeRow(SeedRecipe.id) =
         [SeedRecipe EXCEPT !.description = <<>>, !.servings = Num(3)]

\* C18: after an updateRecipe request that supplies a list for ingredients,
\* steps or tags and is answered 200, the stored rows of that collection for
\* the recipe are exactly the rows of the supplied list; no earlier row remains.
C18_ReplaceAllIsExact ==
  \A r \in Reqs :
    IsUpdate(r) /\ Status(r) = 200 =>
      LET id == req[r].id
          body == req[r].body
      IN  /\ body.ingredients.k = "array" =>
               RowsOf(ingredients, id) = ingredientsToInsert(id, body.ingredients.list)
          /\ body.steps.k = "array" =>
               RowsOf(steps, id) = stepsToInsert(id, body.steps.list)
          /\ body.tags.k = "array" =>
               RowsOf(recipe_tags, id) = tagsToInsert(id, body.tags.list)

\* The position of item i of a list as the claim states it: the supplied
\* number when there is one, i otherwise (i counts from 1).
StatedPosition(list, i) == IF list[i].t = "num" THEN list[i].n ELSE i

\* C19: the ingredient at list index i is inserted with its supplied order
\* when one is supplied and with the positional default otherwise, and the
\* step likewise with its step_number; a supplied value is never replaced.
\* Stated of the rows a 200-answered update leaves when its deletes succeeded.
C19_SuppliedPositionKept ==
  \A r \in Reqs :
    IsUpdate(r) /\ Status(r) = 200 /\ ~req[r].delErr =>
      LET id == req[r].id
          ing == req[r].body.ingredients
          stp == req[r].body.steps
      IN  /\ ing.k = "array" =>
               RowsOf(ingredients, id) =
                 [i \in 1..Len(ing.list) |->
                    [recipe_id |-> id, order |-> StatedPosition(ing.list, i)]]
          /\ stp.k = "array" =>
               RowsOf(steps, id) =
                 [i \in 1..Len(stp.list) |->
                    [recipe_id |-> id, step_number |-> StatedPosition(stp.list, i)]]

\* C20: of two deleteRecipe requests for the same recipe id, at most one is
\* answered 200.
C20_AtMostOneDeleteSucceeds ==
  \A r, q \in Reqs :
    /\ r # q
    /\ IsDelete(r) /\ IsDelete(q)
    /\ req[r].id = req[q].id
    => ~(Status(r) = 200 /\ Status(q) = 200)

\* C21: whatever the page and limit parameters are, the row window that
\* getAllRecipes requests satisfies 0 <= start <= end, and the currentPage of
\* its 200 response is at least 1.
C21_WindowIsValid ==
  \A r \in Reqs :
    IsList(r) =>
      /\ 0 <= req[r].start
      /\ req[r].start <= req[r].end
      /\ Status(r) = 200 => req[r].resp.page.currentPage >= 1

\* The inserts of the dependent rows of a new recipe.
DependentInserts == {"ingredients.insert", "steps.insert", "recipe_tags.insert"}

\* Every insert of createRecipe request r has succeeded: the request is at
\* its re-fetch, or behind it.
AllInserted(r) ==
  \/ req[r].pc = "fetch"
  \/ req[r].err.src = "recipes.select"
  \/ Status(r) = 201

\* C22: a createRecipe request issues its compensating delete only after a
\* dependent-row insert failed, and once the recipe row and every dependent
\* insert have succeeded the recipe stays stored, whatever the re-fetch answers.
C22_DeleteOnlyAfterFailedInsert ==
  \A r \in Reqs :
    IsCreate(r) /\ Alone(r) =>
      /\ req[r].rollback # "none" => req[r].err.src \in DependentInserts
      /\ AllInserted(r) => HasRecipe(req[r].recipeId)

====
